---------------------------- MODULE Spec2Model ----------------------------
(***************************************************************************)
(* Model of workflow-sync-poc/common: the sync-workflows run               *)
(* (code/sync-workflows/main.go, here src/unnamed/part_002) and the        *)
(* per-repository sync of code/github.go.                                  *)
(*                                                                         *)
(* Strings are sequences of one-character strings; the characters "/",     *)
(* "CR" and "LF" stand for the slash, carriage return and line feed.       *)
(*                                                                         *)
(* runCommand sets no directory, so every git command of github.go runs in *)
(* the process's working directory, the checkout of the source repository: *)
(* the branch commands and git remote set-url act on that repository, and  *)
(* git clone makes ./TargetRepo inside it.  main passes its versionTag as  *)
(* SyncRepository's second argument, which github.go names sourceRepoDir;  *)
(* sourceFiles is the workflow directory under the path so named.          *)
(***************************************************************************)
EXTENDS Integers, Sequences, FiniteSets, TLC

(***************************************************************************)
(* Bounds of the model.                                                    *)
(***************************************************************************)
MaxTargets == 2
MaxMsgLen == 2
MaxNameLen == 3

(***************************************************************************)
(* Repository identifiers.                                                 *)
(***************************************************************************)
RepoA == <<"o", "/", "a">>
RepoB == <<"o", "/", "b">>
RepoBad == <<"x">>
SourceRepo == <<"w", "/", "c">>

\* The identifiers a repos.json may list.
ConfigRepos == {RepoA, RepoB, RepoBad}

\* Sequences over S of length at most n.
SeqUpTo(S, n) == UNION {[1..k -> S] : k \in 0..n}

\* A nil error and a nil pointer are the empty sequence; an error is its
\* (non-empty) text and a pointer the one-element sequence of what it points at.
NoErr == <<>>
NoPullRequest == <<>>
\* A nil *Response.
NoResponse == 0

(***************************************************************************)
(* strings.Split(s, sep) for a one-character separator.                    *)
(***************************************************************************)
RECURSIVE Split(_, _)
Split(s, sep) ==
    IF \A k \in 1..Len(s) : s[k] # sep
    THEN <<s>>
    ELSE LET k == CHOOSE j \in 1..Len(s) :
                      s[j] = sep /\ \A m \in 1..(j - 1) : s[m] # sep
         IN  <<SubSeq(s, 1, k - 1)>> \o Split(SubSeq(s, k + 1, Len(s)), sep)

\* RepoOwnerName panics when the identifier has fewer than two parts.
RepoOwnerNamePanics(repo) == Len(Split(repo, "/")) < 2

RepoOwnerName(repo) ==
    LET ownerNameSlice == Split(repo, "/")
    IN  <<ownerNameSlice[1], ownerNameSlice[2]>>

\* The repository the API addresses with (owner, name).
ApiRepo(repo) == LET on == RepoOwnerName(repo) IN on[1] \o <<"/">> \o on[2]

VARIABLES
    pc,           \* the position of the run in main and SyncRepository
    exit,         \* the process's termination status
    config,       \* the content of repos.json
    token,        \* whether GH_AUTH_TOKEN is set
    versionTag,   \* main's versionTag
    targetRepos,  \* main's targetRepos
    idx,          \* the index of the target the loop is at
    syncedRepos,  \* main's syncedRepos
    err,          \* the error of the attempt in progress
    steps,        \* the steps the attempt in progress has performed
    fault,        \* whether the environment failed an operation of this attempt
    pre,          \* the feature branch's existence when the attempt began
    localBranch,  \* whether sync-workflows exists in the working directory's repository
    headCommit,   \* the commit checked out in the working directory
    origin,       \* the repository the working directory's origin points at
    remoteBranch, \* the repositories whose remote has a sync-workflows branch
    cloneDir,     \* the repository cloned into ./TargetRepo, or NoClone
    workFiles,    \* the files of ./TargetRepo/.github/workflows, or NoDir
    repoFiles,    \* per target, the files of its remote's .github/workflows, or NoDir
    sourceFiles,  \* the files of <sourceRepoDir>/.github/workflows, or NoDir
    pulls,        \* the pull requests opened, in order
    lastSynced,   \* the commit the last-synced tag points at
    tagMove,      \* what became of updateLastSynced: "none" while not called
    summary       \* the job summary written, or NoSummary

vars == <<pc, exit, config, token, versionTag, targetRepos, idx, syncedRepos,
          err, steps, fault, pre, localBranch, headCommit, origin,
          remoteBranch, cloneDir, workFiles, repoFiles, sourceFiles, pulls,
          lastSynced, tagMove, summary>>

branchVars == <<localBranch, headCommit, remoteBranch>>
fileVars == <<cloneDir, workFiles>>
gitVars == <<localBranch, headCommit, origin, remoteBranch, cloneDir, workFiles>>
runVars == <<config, token, versionTag, targetRepos, repoFiles, sourceFiles>>

\* ./TargetRepo does not exist.
NoClone == <<>>
\* No job summary has been written; a written one is <<summary>>.
NoSummary == <<>>
OldCommit == "c0"
MainTip == "c1"
Commits == {MainTip, "c2"}
FeatureBranch == "sync-workflows"

\* repos.json: missing, not a JSON list of strings, or a list of identifiers.
ConfigFiles ==
    {[state |-> st, repos |-> <<>>] : st \in {"missing", "malformed"}}
    \cup {[state |-> "ok", repos |-> r] : r \in SeqUpTo(ConfigRepos, MaxTargets)}

(***************************************************************************)
(* File names and directories.  A directory exists or not, and holds a     *)
(* function from the names of its files to their contents.                 *)
(***************************************************************************)
SyncedPrefix == <<"s", "y", "n", "c", "e", "d", "_">>
YmlExt == <<".", "y", "m", "l">>
YamlExt == <<".", "y", "a", "m", "l">>

SyncedCi == SyncedPrefix \o <<"c">> \o YmlExt
SyncedB == SyncedPrefix \o <<"b">> \o YamlExt
Manual == <<"m">> \o YmlExt
Backup == <<"x">> \o SyncedPrefix \o <<"c">> \o YmlExt \o <<"~">>
Bare == SyncedPrefix \o YmlExt

NoFiles == [n \in {} |-> ""]
NoDir == [exists |-> FALSE, files |-> NoFiles]
EmptyDir == [exists |-> TRUE, files |-> NoFiles]
Dir(files) == [exists |-> TRUE, files |-> files]

\* The fixed directories of the run's specification.
RunSourceFiles == Dir(SyncedCi :> "new")
RunRepoFiles ==
    (RepoA :> Dir(SyncedCi :> "old" @@ Manual :> "m")) @@ (RepoB :> NoDir)

Init ==
    /\ pc = "main"
    /\ exit = "running"
    /\ config \in ConfigFiles
    /\ token \in BOOLEAN
    /\ versionTag = ""
    /\ targetRepos = <<>>
    /\ idx = 0
    /\ syncedRepos = <<>>
    /\ err = NoErr
    /\ steps = <<>>
    /\ fault = FALSE
    /\ pre = [local |-> FALSE, remote |-> FALSE]
    /\ localBranch \in BOOLEAN
    /\ headCommit \in Commits
    /\ origin = SourceRepo
    /\ remoteBranch \in SUBSET {RepoA, RepoB, SourceRepo}
    /\ cloneDir = NoClone
    /\ workFiles = NoDir
    /\ repoFiles = RunRepoFiles
    /\ sourceFiles \in {NoDir, RunSourceFiles}
    /\ pulls = <<>>
    /\ lastSynced = OldCommit
    /\ tagMove = "none"
    /\ summary = NoSummary

\* A panic or log.Fatal: the process ends with a failure status.
Panic ==
    /\ pc' = "exited"
    /\ exit' = "failure"

(***************************************************************************)
(* main, up to the loop: the working directory, the current repository,    *)
(* the latest version tag and the target list.                             *)
(***************************************************************************)
MainStart ==
    /\ pc = "main"
    /\ \E getwd \in BOOLEAN, current \in BOOLEAN, lookup \in {"err", "", "v1"} :
          IF /\ getwd /\ current /\ lookup \notin {"err", ""}
             /\ config.state = "ok"
          THEN /\ versionTag' = lookup
               /\ targetRepos' = config.repos
               /\ idx' = 1
               /\ pc' = "loop"
               /\ UNCHANGED exit
          ELSE /\ Panic
               /\ UNCHANGED <<versionTag, targetRepos, idx>>
    /\ UNCHANGED <<config, token, repoFiles, sourceFiles, syncedRepos, err,
                   steps, fault, pre, pulls, lastSynced, tagMove, summary>>
    /\ UNCHANGED gitVars

\* The target the loop is at.
Target == targetRepos[idx]

\* One entry of steps: the operation, and for a pull request creation what the
\* call returned.
Step(op) == [op |-> op, callErr |-> FALSE, status |-> 0]

\* fmt.Errorf("<context>: %v", cause): the context followed by the cause's text.
Errorf(context, cause) == <<context>> \o cause

\* The text of an error of the environment (a git command, an API call).
EnvErrors == {<<"e">>}

\* The attempt ends with error e: SyncRepository returns it to the loop.
Return(e) ==
    /\ err' = e
    /\ pc' = "record"

(***************************************************************************)
(* SyncRepository, lines 154-160: RepoOwnerName, getClient and             *)
(* getDefaultBranch for the target the loop is at.                         *)
(***************************************************************************)
BeginSync ==
    /\ pc = "loop"
    /\ idx <= Len(targetRepos)
    /\ steps' = <<>>
    /\ IF RepoOwnerNamePanics(Target) \/ ~token
       THEN /\ Panic
            /\ UNCHANGED <<err, fault, pre>>
       ELSE /\ pre' = [local |-> localBranch,
                       remote |-> ApiRepo(Target) \in remoteBranch]
            /\ UNCHANGED exit
            /\ \E ok \in BOOLEAN, cause \in EnvErrors :
                  /\ fault' = ~ok
                  /\ IF ok
                     THEN /\ pc' = "branchExists"
                          /\ err' = NoErr
                     ELSE Return(Errorf("could not get repository info", cause))
    /\ UNCHANGED <<idx, syncedRepos, pulls, lastSynced, tagMove, summary>>
    /\ UNCHANGED runVars
    /\ UNCHANGED gitVars

(***************************************************************************)
(* BranchExists, called by CreateAndPushToNewBranch (line 99).  The        *)
(* request returns a response with a status code, or no response at all;   *)
(* response.StatusCode is read before err is looked at.                    *)
(***************************************************************************)
GetBranchResponses(repo) ==
    {NoResponse, 500} \cup (IF repo \in remoteBranch THEN {200} ELSE {404})

BranchExists ==
    /\ pc = "branchExists"
    /\ \E response \in GetBranchResponses(ApiRepo(Target)), cause \in EnvErrors :
          CASE response = NoResponse ->
                  \* a nil pointer dereference at line 68
                  /\ Panic
                  /\ fault' = TRUE
                  /\ UNCHANGED err
            [] response = 404 ->
                  /\ pc' = "checkoutNew"
                  /\ UNCHANGED <<exit, err, fault>>
            [] response = 200 ->
                  /\ pc' = "deleteBranch"
                  /\ UNCHANGED <<exit, err, fault>>
            [] OTHER ->
                  /\ Return(Errorf("could not see if old branch exists", cause))
                  /\ fault' = TRUE
                  /\ UNCHANGED exit
    /\ UNCHANGED <<idx, syncedRepos, steps, pre, pulls, lastSynced, tagMove, summary>>
    /\ UNCHANGED runVars
    /\ UNCHANGED gitVars

(***************************************************************************)
(* DeleteBranch: getDefaultBranch, git checkout <default>, git branch -D   *)
(* and git push origin --delete, all in the process's working directory.   *)
(* stop is the command that fails (5: none does).  git branch -D cannot    *)
(* succeed without a local branch, nor the remote delete without the       *)
(* branch on origin.                                                       *)
(***************************************************************************)
DeleteBranchContext(stop) ==
    CASE stop = 1 -> "could not delete old branch: could not get default branch"
      [] stop = 2 -> "could not delete old branch: could not checkout default branch"
      [] stop = 3 -> "could not delete old branch: could not delete branch locally"
      [] OTHER    -> "could not delete old branch: could not delete branch remotely"

DeleteBranch ==
    /\ pc = "deleteBranch"
    /\ \E stop \in 1..5, cause \in EnvErrors :
          /\ ~localBranch => stop <= 3
          /\ origin \notin remoteBranch => stop <= 4
          /\ headCommit' = IF stop > 2 THEN MainTip ELSE headCommit
          /\ localBranch' = IF stop > 3 THEN FALSE ELSE localBranch
          /\ remoteBranch' = IF stop > 4 THEN remoteBranch \ {origin}
                             ELSE remoteBranch
          /\ fault' = (fault \/ stop \in {1, 2}
                             \/ (stop = 3 /\ localBranch)
                             \/ (stop = 4 /\ origin \in remoteBranch))
          /\ IF stop = 5
             THEN /\ pc' = "checkoutNew"
                  /\ UNCHANGED err
             ELSE Return(Errorf(DeleteBranchContext(stop), cause))
    /\ UNCHANGED <<exit, idx, syncedRepos, steps, pre, origin, pulls,
                   lastSynced, tagMove, summary>>
    /\ UNCHANGED fileVars
    /\ UNCHANGED runVars

(***************************************************************************)
(* CreateAndPushToNewBranch, lines 107-109: git checkout -b sync-workflows *)
(* in the working directory; it cannot succeed when the branch exists      *)
(* there.                                                                  *)
(***************************************************************************)
CheckoutNew ==
    /\ pc = "checkoutNew"
    /\ \E ok \in BOOLEAN, cause \in EnvErrors :
          /\ localBranch => ~ok
          /\ fault' = (fault \/ (~ok /\ ~localBranch))
          /\ IF ok
             THEN /\ localBranch' = TRUE
                  /\ pc' = "pushNew"
                  /\ UNCHANGED err
             ELSE /\ Return(Errorf("could not checkout", cause))
                  /\ UNCHANGED localBranch
    /\ UNCHANGED <<exit, idx, syncedRepos, steps, pre, headCommit, origin,
                   remoteBranch, pulls, lastSynced, tagMove, summary>>
    /\ UNCHANGED fileVars
    /\ UNCHANGED runVars

(***************************************************************************)
(* CreateAndPushToNewBranch, lines 111-115: git push -u origin             *)
(* sync-workflows, to the origin of the working directory.                 *)
(***************************************************************************)
PushNew ==
    /\ pc = "pushNew"
    /\ \E ok \in BOOLEAN, cause \in EnvErrors :
          /\ fault' = (fault \/ ~ok)
          /\ IF ok
             THEN /\ remoteBranch' = remoteBranch \cup {origin}
                  /\ steps' = Append(steps, Step("reconcile"))
                  /\ pc' = "locallySync"
                  /\ UNCHANGED err
             ELSE /\ Return(Errorf("could not push to remote", cause))
                  /\ UNCHANGED <<remoteBranch, steps>>
    /\ UNCHANGED <<exit, idx, syncedRepos, pre, localBranch, headCommit,
                   origin, pulls, lastSynced, tagMove, summary>>
    /\ UNCHANGED fileVars
    /\ UNCHANGED runVars

(***************************************************************************)
(* locallySync's isSyncedFile: syncedFilePattern.MatchString(name) with    *)
(* the pattern synced_.+\.y(a)?ml, which matches anywhere in the name.     *)
(***************************************************************************)
HasAt(s, i, t) ==
    /\ i >= 1
    /\ i + Len(t) - 1 <= Len(s)
    /\ SubSeq(s, i, i + Len(t) - 1) = t

\* isSyncedFile with a pattern that knows the .yml extension only.
isSyncedFileYml(name) ==
    \E i \in 1..Len(name) :
        /\ HasAt(name, i, SyncedPrefix)
        /\ \E j \in (i + Len(SyncedPrefix) + 1)..Len(name) :
              HasAt(name, j, YmlExt)

isSyncedFile(name) ==
    \E i \in 1..Len(name) :
        /\ HasAt(name, i, SyncedPrefix)
        /\ \E j \in (i + Len(SyncedPrefix) + 1)..Len(name) :
              HasAt(name, j, YmlExt) \/ HasAt(name, j, YamlExt)

\* The names of the synced files of a directory.
SyncedNames(dir) == {n \in DOMAIN dir.files : isSyncedFile(n)}

\* DeleteSpecificFiles(path, isSyncedFile) having deleted the files gone.
DeleteSpecificFiles(dir, gone) ==
    Dir([n \in (DOMAIN dir.files) \ gone |-> dir.files[n]])

\* CopySpecificFiles(source, target, isSyncedFile) having copied the files copied.
CopySpecificFiles(source, target, copied) ==
    Dir([n \in (DOMAIN target.files) \cup copied |->
            IF n \in copied THEN source.files[n] ELSE target.files[n]])

\* CloneRepository with a git clone that goes into a directory still there
\* and leaves what it holds.
CloneRepositoryOverLeftover ==
    /\ pc = "locallySync"
    /\ \E deleted \in BOOLEAN, stop \in 1..3, cause \in EnvErrors :
          LET left == cloneDir # NoClone /\ ~deleted
          IN  /\ fault' = (fault \/ stop \in {1, 2})
              /\ IF stop > 1
                 THEN /\ cloneDir' = Target
                      /\ workFiles' = IF left THEN workFiles ELSE repoFiles[Target]
                 ELSE /\ cloneDir' = IF left THEN cloneDir ELSE NoClone
                      /\ workFiles' = IF left THEN workFiles ELSE NoDir
              /\ origin' = IF stop > 2 THEN Target ELSE origin
              /\ IF stop = 3
                 THEN /\ steps' = Append(steps, Step("clone"))
                      /\ pc' = "transfer"
                      /\ UNCHANGED err
                 ELSE /\ Return(Errorf("could not sync locally: could not clone git repository", cause))
                      /\ UNCHANGED steps
    /\ UNCHANGED <<exit, idx, syncedRepos, pre, pulls, lastSynced, tagMove, summary>>
    /\ UNCHANGED branchVars
    /\ UNCHANGED runVars

(***************************************************************************)
(* CloneRepository(targetRepo, "TargetRepo"), called by locallySync: the    *)
(* directory is deleted when it exists (DeleteDirectory's result is not    *)
(* looked at), git clone, then git remote set-url origin, which runs in    *)
(* the process's working directory.  stop is the command that fails        *)
(* (3: none does).                                                         *)
(***************************************************************************)
CloneRepository ==
    /\ pc = "locallySync"
    /\ \E deleted \in BOOLEAN, stop \in 1..3, cause \in EnvErrors :
          LET left == cloneDir # NoClone /\ ~deleted
          IN  /\ left => stop = 1
              /\ fault' = (fault \/ (stop = 1 /\ ~left) \/ stop = 2)
              /\ IF stop > 1
                 THEN /\ cloneDir' = Target
                      /\ workFiles' = repoFiles[Target]
                 ELSE /\ cloneDir' = IF left THEN cloneDir ELSE NoClone
                      /\ workFiles' = IF left THEN workFiles ELSE NoDir
              /\ origin' = IF stop > 2 THEN Target ELSE origin
              /\ IF stop = 3
                 THEN /\ steps' = Append(steps, Step("clone"))
                      /\ pc' = "transfer"
                      /\ UNCHANGED err
                 ELSE /\ Return(Errorf("could not sync locally: could not clone git repository", cause))
                      /\ UNCHANGED steps
    /\ UNCHANGED <<exit, idx, syncedRepos, pre, pulls, lastSynced, tagMove, summary>>
    /\ UNCHANGED branchVars
    /\ UNCHANGED runVars

(***************************************************************************)
(* locallySync, lines 129-145: the workflow directory is created when      *)
(* absent, the synced files of the target are deleted and those of the     *)
(* source copied.  stop is the operation that fails (4: none does); a      *)
(* failing delete or copy has handled only some of its files.  The copy    *)
(* cannot succeed when the source directory does not exist.                *)
(***************************************************************************)
TransferContext(stop) ==
    CASE stop = 1 -> "could not sync locally: could not create workflow path"
      [] stop = 2 -> "could not sync locally: could not delete synced workflow files"
      [] OTHER    -> "could not sync locally: could not copy synced workflow files"

TransferFiles ==
    /\ pc = "transfer"
    /\ \E stop \in 1..4, cause \in EnvErrors :
          LET made == IF workFiles.exists THEN workFiles ELSE EmptyDir
              old == SyncedNames(made)
              new == SyncedNames(sourceFiles)
              Result(gone, copied) ==
                  CopySpecificFiles(sourceFiles,
                                    DeleteSpecificFiles(made, gone), copied)
          IN  /\ (stop = 1) => ~workFiles.exists
              /\ ~sourceFiles.exists => stop <= 3
              /\ fault' = (fault \/ stop \in {1, 2}
                                 \/ (stop = 3 /\ sourceFiles.exists))
              /\ CASE stop = 1 -> workFiles' = NoDir
                    [] stop = 2 ->
                          \E gone \in SUBSET old : workFiles' = Result(gone, {})
                    [] stop = 3 ->
                          \E copied \in SUBSET new : workFiles' = Result(old, copied)
                    [] OTHER -> workFiles' = Result(old, new)
              /\ IF stop = 4
                 THEN /\ steps' = Append(steps, Step("transfer"))
                      /\ pc' = "createPullRequest"
                      /\ UNCHANGED err
                 ELSE /\ Return(Errorf(TransferContext(stop), cause))
                      /\ UNCHANGED steps
    /\ UNCHANGED <<exit, idx, syncedRepos, pre, origin, cloneDir, pulls,
                   lastSynced, tagMove, summary>>
    /\ UNCHANGED branchVars
    /\ UNCHANGED runVars

(***************************************************************************)
(* isOk: the first character of the status code's decimal text is          *)
(* compared with '2'.                                                      *)
(***************************************************************************)
RECURSIVE FirstDigit(_)
FirstDigit(n) == IF n < 10 THEN n ELSE FirstDigit(n \div 10)

isOk(response) == FirstDigit(response) # 2

\* The status codes a create-pull-request call answers with.
CreateStatuses == {201, 422}

(***************************************************************************)
(* SyncRepository, lines 171-191: client.PullRequests.Create and the check *)
(* of its result.  The call returns an error or none, and a response or    *)
(* (with an error) none; the pull request it returns is dropped.           *)
(***************************************************************************)
CreatePullRequest ==
    /\ pc = "createPullRequest"
    /\ \E callErr \in BOOLEAN, response \in CreateStatuses \cup {NoResponse},
          cause \in EnvErrors :
          /\ (response = NoResponse) => callErr
          /\ steps' = Append(steps, [op |-> "pullRequest", callErr |-> callErr,
                                     status |-> response])
          /\ pulls' = IF ~callErr /\ response = 201
                      THEN Append(pulls, [repo |-> ApiRepo(Target),
                                          head |-> FeatureBranch])
                      ELSE pulls
          /\ IF callErr \/ ~isOk(response)
             THEN err' = Errorf("could not create pull request", cause)
             ELSE err' = NoErr
          /\ pc' = "record"
    /\ UNCHANGED <<exit, idx, syncedRepos, fault, pre, lastSynced, tagMove, summary>>
    /\ UNCHANGED gitVars
    /\ UNCHANGED runVars

(***************************************************************************)
(* main, lines 173-184: the outcome of the attempt is appended.            *)
(* SyncRepository of github.go returns an error only and drops the pull    *)
(* request it created, so the outcome's PullRequest is nil.  ElapsedTime,  *)
(* which only formatTime reads, is left out of the outcome.                *)
(***************************************************************************)
SyncedRepository(identifier, error, pullRequest) ==
    [Identifier |-> identifier, Error |-> error, PullRequest |-> pullRequest]

RecordOutcome ==
    /\ pc = "record"
    /\ syncedRepos' = Append(syncedRepos,
                             SyncedRepository(Target, err, NoPullRequest))
    /\ idx' = idx + 1
    /\ pc' = "loop"
    /\ UNCHANGED <<exit, err, steps, fault, pre, pulls, lastSynced, tagMove, summary>>
    /\ UNCHANGED gitVars
    /\ UNCHANGED runVars

(***************************************************************************)
(* The report: formatRepo, formatSuccess, formatPullRequestStatus,         *)
(* formatPullRequest and GetSyncedReposTableAndErrors.                     *)
(***************************************************************************)
formatRepo(syncedRepo) ==
    [name |-> RepoOwnerName(syncedRepo.Identifier)[2],
     link |-> syncedRepo.Identifier]

formatSuccess(syncedRepo) ==
    IF syncedRepo.Error # NoErr THEN "cross" ELSE "check"

formatPullRequestStatus(syncedRepo) ==
    IF syncedRepo.Error # NoErr THEN "openImage" ELSE "mergedImage"

\* formatPullRequest looking at the error before the pull request.
formatPullRequestErrorFirst(syncedRepo) ==
    IF syncedRepo.Error # NoErr
    THEN [text |-> "Could not create.", image |-> "", pullRequest |-> NoPullRequest]
    ELSE IF syncedRepo.PullRequest # NoPullRequest
    THEN [text |-> "pull request",
          image |-> formatPullRequestStatus(syncedRepo),
          pullRequest |-> syncedRepo.PullRequest]
    ELSE [text |-> "No changes needed.", image |-> "", pullRequest |-> NoPullRequest]

formatPullRequest(syncedRepo) ==
    IF syncedRepo.PullRequest # NoPullRequest
    THEN [text |-> "pull request",
          image |-> formatPullRequestStatus(syncedRepo),
          pullRequest |-> syncedRepo.PullRequest]
    ELSE IF syncedRepo.Error # NoErr
    THEN [text |-> "Could not create.", image |-> "", pullRequest |-> NoPullRequest]
    ELSE [text |-> "No changes needed.", image |-> "", pullRequest |-> NoPullRequest]

\* The characters newlinePattern matches one at a time.
NewlineChars == {"CR", "LF", "VT", "FF", "NEL", "LS", "PS"}

\* ReplaceAllString with a pattern that has no CR LF alternative.
RECURSIVE ReplaceNewlinesSingly(_)
ReplaceNewlinesSingly(text) ==
    IF text = <<>> THEN <<>>
    ELSE IF text[1] \in NewlineChars
    THEN <<";", " ">> \o ReplaceNewlinesSingly(Tail(text))
    ELSE <<text[1]>> \o ReplaceNewlinesSingly(Tail(text))

\* newlinePattern.ReplaceAllString(text, "; "): a CR LF pair is one match.
RECURSIVE ReplaceNewlines(_)
ReplaceNewlines(text) ==
    IF text = <<>> THEN <<>>
    ELSE IF Len(text) >= 2 /\ text[1] = "CR" /\ text[2] = "LF"
    THEN <<";", " ">> \o ReplaceNewlines(SubSeq(text, 3, Len(text)))
    ELSE IF text[1] \in NewlineChars
    THEN <<";", " ">> \o ReplaceNewlines(Tail(text))
    ELSE <<text[1]>> \o ReplaceNewlines(Tail(text))

TableRow(syncedRepo) ==
    [repo |-> formatRepo(syncedRepo),
     success |-> formatSuccess(syncedRepo),
     pullRequest |-> formatPullRequest(syncedRepo)]

ErrorLine(syncedRepo) ==
    [repo |-> formatRepo(syncedRepo),
     text |-> ReplaceNewlines(syncedRepo.Error)]

RECURSIVE ErrorLines(_)
ErrorLines(repos) ==
    IF repos = <<>> THEN <<>>
    ELSE (IF Head(repos).Error # NoErr THEN <<ErrorLine(Head(repos))>> ELSE <<>>)
         \o ErrorLines(Tail(repos))

\* The blocks joined into the result: the table, then the errors when there
\* are any.
GetSyncedReposTableAndErrors(repos) ==
    LET syncedReposTable ==
            [kind |-> "table", lines |-> [k \in 1..Len(repos) |-> TableRow(repos[k])]]
        syncedReposErrors ==
            [kind |-> "errors", lines |-> ErrorLines(repos)]
    IN  IF Len(syncedReposErrors.lines) > 0
        THEN <<syncedReposTable, syncedReposErrors>>
        ELSE <<syncedReposTable>>

\* formatRepo panics on an identifier RepoOwnerName cannot split.
ReportPanics(repos) ==
    \E k \in 1..Len(repos) : RepoOwnerNamePanics(repos[k].Identifier)

\* GetSyncedRepoCount counting the outcomes with an error.
GetSyncedRepoCountOfErrors(repos) ==
    <<Cardinality({k \in 1..Len(repos) : repos[k].Error # NoErr}), Len(repos)>>

\* The check of line 195 letting a partial success through.
AllSyncedOrFewer(successCount, totalCount) == successCount <= totalCount

\* The check of line 213 also failing a full success.
NotFullySyncedOrEqual(successCount, totalCount) == successCount <= totalCount

\* The check of line 195 asking for at least one target.
AllSyncedOfSome(successCount, totalCount) ==
    successCount = totalCount /\ totalCount > 0

\* AnySyncedRepoHasError returning after the first outcome.
AnySyncedRepoHasErrorAtFirst(repos) ==
    Len(repos) > 0 /\ repos[1].Error # NoErr

AnySyncedRepoHasError(repos) ==
    \E k \in 1..Len(repos) : repos[k].Error # NoErr

GetSyncedRepoCount(repos) ==
    <<Cardinality({k \in 1..Len(repos) : repos[k].Error = NoErr}), Len(repos)>>

\* main, line 195: whether the tag is updated.
AllSynced(successCount, totalCount) == successCount = totalCount

\* main, line 213: whether the run ends in a panic.
NotFullySynced(successCount, totalCount) == successCount < totalCount

NoTag == "none"

(***************************************************************************)
(* main, lines 187-215: the counts, the report, updateLastSynced when all  *)
(* targets are synced, the job summary and the termination status.         *)
(* updateLastSynced sets the origin of the working directory and moves the *)
(* tag to the commit checked out there; it panics when either fails, and a *)
(* failed move may have deleted the tag.                                   *)
(***************************************************************************)
MainFinish ==
    /\ pc = "loop"
    /\ idx > Len(targetRepos)
    /\ pc' = "exited"
    /\ LET count == GetSyncedRepoCount(syncedRepos)
           successCount == count[1]
           totalCount == count[2]
           lines(tag) ==
               [version |-> versionTag,
                successCount |-> successCount,
                totalCount |-> totalCount,
                tableAndErrors |-> GetSyncedReposTableAndErrors(syncedRepos),
                tag |-> tag,
                missingCount |-> totalCount - successCount]
           status == IF NotFullySynced(successCount, totalCount)
                     THEN "failure" ELSE "success"
       IN  IF ReportPanics(syncedRepos)
           THEN /\ exit' = "failure"
                /\ UNCHANGED <<origin, lastSynced, tagMove, summary>>
           ELSE IF AllSynced(successCount, totalCount)
           THEN \E update \in {"ok", "origin failed", "tag failed"} :
                   /\ tagMove' = update
                   /\ CASE update = "ok" ->
                              /\ origin' = SourceRepo
                              /\ lastSynced' = headCommit
                              /\ summary' = <<lines("Updated")>>
                              /\ exit' = status
                        [] update = "origin failed" ->
                              /\ exit' = "failure"
                              /\ UNCHANGED <<origin, lastSynced, summary>>
                        [] OTHER ->
                              /\ origin' = SourceRepo
                              /\ lastSynced' \in {lastSynced, NoTag}
                              /\ exit' = "failure"
                              /\ UNCHANGED summary
           ELSE /\ summary' = <<lines("Stays")>>
                /\ exit' = status
                /\ UNCHANGED <<origin, lastSynced, tagMove>>
    /\ UNCHANGED <<idx, syncedRepos, err, steps, fault, pre, pulls>>
    /\ UNCHANGED branchVars
    /\ UNCHANGED fileVars
    /\ UNCHANGED runVars

Next ==
    \/ MainStart
    \/ BeginSync
    \/ BranchExists
    \/ DeleteBranch
    \/ CheckoutNew
    \/ PushNew
    \/ CloneRepository
    \/ TransferFiles
    \/ CreatePullRequest
    \/ RecordOutcome
    \/ MainFinish


Spec == Init /\ [][Next]_vars

(***************************************************************************)
(* Properties of the run.                                                  *)
(***************************************************************************)
\* The targets whose outcome has a nil error.
Succeeded ==
    Cardinality({k \in 1..Len(syncedRepos) : syncedRepos[k].Error = NoErr})

\* The identifiers of the outcomes, in order.
Identifiers(repos) == [k \in 1..Len(repos) |-> repos[k].Identifier]

Exited == pc = "exited"

\* The loop has gone through the whole target list.
LoopDone == Exited /\ idx >= 1 /\ idx > Len(targetRepos)

\* The run has ended and every target of its list has a nil error.
AllTargetsSucceeded == LoopDone /\ Succeeded = Len(targetRepos)

\* Nothing fatal in the inputs: a readable list of well-formed identifiers
\* and a token.
WellFormedInputs ==
    /\ config.state = "ok"
    /\ token
    /\ \A k \in 1..Len(config.repos) : ~RepoOwnerNamePanics(config.repos[k])

\* The heading of the written job summary states s/t.
HeadingStates(s, t) ==
    /\ summary # NoSummary
    /\ summary[1].successCount = s
    /\ summary[1].totalCount = t

\* C1: while fewer targets than the configured list holds have a nil error,
\* updateLastSynced has not been called and the last-synced tag points at its
\* pre-run commit; and a run that ends so ends with failure status.
C1_MarkerStaysOnPartialFailure ==
    (config.state = "ok" /\ Succeeded < Len(config.repos)) =>
        /\ tagMove = "none"
        /\ lastSynced = OldCommit
        /\ Exited => exit = "failure"

\* A run over two targets has recorded both, not all with success, and has
\* written its report.
C1_Witness ==
    /\ LoopDone
    /\ Len(targetRepos) = 2
    /\ Len(syncedRepos) = 2
    /\ Succeeded < 2
    /\ summary # NoSummary
    /\ summary[1].tag = "Stays"
    /\ exit = "failure"
    /\ lastSynced = OldCommit

\* C2: a run with nothing fatal in its inputs ends only after the loop has
\* attempted every target and recorded an outcome for each: no failure inside
\* an attempt ends the run.
C2_FailureNeverAborts ==
    (WellFormedInputs /\ Exited /\ idx >= 1) =>
        /\ idx > Len(targetRepos)
        /\ Len(syncedRepos) = Len(targetRepos)

C4_FailureIffNotAllSucceeded ==
    Exited => (exit = "failure" <=> ~AllTargetsSucceeded)

\* C4 amended: the run ends with failure status exactly when not all targets
\* succeeded or updateLastSynced failed, and with success status otherwise.
C4_FailureIffNotAllSucceededOrUpdateFails ==
    Exited =>
        /\ exit \in {"success", "failure"}
        /\ exit = "failure" <=> (~AllTargetsSucceeded \/ tagMove # "ok")

\* Every target of a non-empty list succeeded, and the run ended with failure
\* status because the tag could not be moved.
C4_Witness ==
    /\ AllTargetsSucceeded
    /\ Len(targetRepos) >= 1
    /\ tagMove = "tag failed"
    /\ exit = "failure"

\* C5: a run with nothing fatal in its inputs ends with one outcome per
\* configured target, in the order of the list, and a written report has one
\* table row per target in that order.
C5_OneOutcomePerTarget ==
    (WellFormedInputs /\ Exited /\ idx >= 1) =>
        /\ Identifiers(syncedRepos) = targetRepos
        /\ summary # NoSummary =>
              LET rows == summary[1].tableAndErrors[1].lines
              IN  [k \in 1..Len(rows) |-> rows[k].repo.link] = targetRepos

(***************************************************************************)
(* The file transfer on its own: locallySync for the first target, RepoA,  *)
(* whose branch reconcile has succeeded, over the directories a target and *)
(* a source may hold.  ./TargetRepo does not exist, or holds what a clone  *)
(* of another repository left there.                                       *)
(***************************************************************************)
TransferNames == {SyncedCi, SyncedB, Manual, Backup, Bare}

\* The directories with files named in names and contents in contents.
Dirs(names, contents) ==
    {NoDir} \cup UNION {{Dir(f) : f \in [present -> contents]} :
                        present \in SUBSET names}

LeftoverDir == Dir(Manual :> "stale" @@ SyncedB :> "stale")

InitTransfer ==
    /\ pc = "locallySync"
    /\ exit = "running"
    /\ config = [state |-> "ok", repos |-> <<RepoA>>]
    /\ token = TRUE
    /\ versionTag = "v1"
    /\ targetRepos = <<RepoA>>
    /\ idx = 1
    /\ syncedRepos = <<>>
    /\ err = NoErr
    /\ steps = <<Step("reconcile")>>
    /\ fault = FALSE
    /\ pre = [local |-> FALSE, remote |-> FALSE]
    /\ localBranch = TRUE
    /\ headCommit = MainTip
    /\ origin = SourceRepo
    /\ remoteBranch = {SourceRepo}
    /\ \/ cloneDir = NoClone /\ workFiles = NoDir
       \/ cloneDir = RepoB /\ workFiles = LeftoverDir
    /\ \E d \in Dirs(TransferNames, {"old"}) :
          repoFiles = (RepoA :> d) @@ (RepoB :> LeftoverDir)
    /\ sourceFiles \in Dirs(TransferNames, {"old", "new"})
    /\ pulls = <<>>
    /\ lastSynced = OldCommit
    /\ tagMove = "none"
    /\ summary = NoSummary

NextTransfer ==
    \/ CloneRepository
    \/ TransferFiles

SpecTransfer == InitTransfer /\ [][NextTransfer]_vars

\* The name has the form synced_<name>.yml or synced_<name>.yaml: the prefix
\* at its start, the extension at its end and a name between them.
Managed(name) ==
    /\ HasAt(name, 1, SyncedPrefix)
    /\ \E ext \in {YmlExt, YamlExt} :
          /\ Len(name) > Len(SyncedPrefix) + Len(ext)
          /\ HasAt(name, Len(name) - Len(ext) + 1, ext)

\* The transfer has acted on a clone of the target: the clone succeeded and
\* the transfer ended, with or without an error.
Transferred ==
    /\ pc \in {"createPullRequest", "record"}
    /\ Len(steps) >= 2
    /\ steps[2].op = "clone"

\* File n is the same in directories d and e: in both with one content, or
\* in neither.
SameFile(n, d, e) ==
    /\ n \in DOMAIN d.files <=> n \in DOMAIN e.files
    /\ n \in DOMAIN d.files => d.files[n] = e.files[n]

\* C10: after the transfer every file whose name is not of the managed form
\* is in the clone's workflow directory as it was cloned: not deleted, not
\* created, not modified.
C10_UnmanagedUntouched ==
    Transferred =>
        \A n \in TransferNames :
            ~Managed(n) => SameFile(n, workFiles, repoFiles[Target])

(***************************************************************************)
(* The report on its own: main after the loop, over the outcome sequences  *)
(* of up to MaxTargets targets whose errors are texts with up to MaxMsgLen *)
(* characters after their context, newlines among them.                    *)
(***************************************************************************)
MsgChars == {"e", "CR", "LF"}

ReportErrors ==
    {NoErr} \cup {Errorf("could not create pull request", c) :
                     c \in SeqUpTo(MsgChars, MaxMsgLen) \ {<<>>}}

ReportOutcomes ==
    {SyncedRepository(id, e, NoPullRequest) :
        id \in {RepoA, RepoB}, e \in ReportErrors}

InitReport ==
    /\ pc = "loop"
    /\ exit = "running"
    /\ syncedRepos \in SeqUpTo(ReportOutcomes, MaxTargets)
    /\ targetRepos = Identifiers(syncedRepos)
    /\ config = [state |-> "ok", repos |-> targetRepos]
    /\ token = TRUE
    /\ versionTag = "v1"
    /\ idx = Len(targetRepos) + 1
    /\ err = NoErr
    /\ steps = <<>>
    /\ fault = FALSE
    /\ pre = [local |-> FALSE, remote |-> FALSE]
    /\ localBranch = FALSE
    /\ headCommit = MainTip
    /\ origin = SourceRepo
    /\ remoteBranch = {}
    /\ cloneDir = NoClone
    /\ workFiles = NoDir
    /\ repoFiles = RunRepoFiles
    /\ sourceFiles = RunSourceFiles
    /\ pulls = <<>>
    /\ lastSynced = OldCommit
    /\ tagMove = "none"
    /\ summary = NoSummary

NextReport == MainFinish

SpecReport == InitReport /\ [][NextReport]_vars

\* The outcomes with an error, in order.
Failed(repos) == SelectSeq(repos, LAMBDA r : r.Error # NoErr)

\* The newlines of a text, a CR LF pair being one.
NewlineCount(text) ==
    Cardinality({k \in 1..Len(text) : text[k] \in NewlineChars})
    - Cardinality({k \in 1..(Len(text) - 1) :
                      text[k] = "CR" /\ text[k + 1] = "LF"})

\* The text without its newline characters.
WithoutNewlines(text) == SelectSeq(text, LAMBDA c : c \notin NewlineChars)

\* The text without the characters of "; ".
WithoutSeparators(text) == SelectSeq(text, LAMBDA c : c \notin {";", " "})

\* The occurrences of "; " in a text.
SeparatorCount(text) ==
    Cardinality({k \in 1..(Len(text) - 1) : text[k] = ";" /\ text[k + 1] = " "})

\* C6: the written report has an error list exactly when an outcome failed;
\* the list has one entry per failed outcome (M - N of them), in attempt
\* order, each naming its target, and its text is the error's text with each
\* newline replaced by "; ".
C6_ErrorList ==
    summary # NoSummary =>
        LET blocks == summary[1].tableAndErrors
            failed == Failed(syncedRepos)
        IN  /\ Len(blocks) = (IF Len(failed) = 0 THEN 1 ELSE 2)
            /\ Len(failed) > 0 =>
                  LET lines == blocks[2].lines
                  IN  /\ blocks[2].kind = "errors"
                      /\ Len(lines) = Len(failed)
                      /\ Len(lines) =
                            summary[1].totalCount - summary[1].successCount
                      /\ \A k \in 1..Len(lines) :
                            /\ lines[k].repo.link = failed[k].Identifier
                            /\ \A j \in 1..Len(lines[k].text) :
                                  lines[k].text[j] \notin NewlineChars
                            /\ WithoutSeparators(lines[k].text) =
                                  WithoutNewlines(failed[k].Error)
                            /\ SeparatorCount(lines[k].text) =
                                  NewlineCount(failed[k].Error)

\* Two targets failed, the first with a CR LF pair in its error, and the
\* report lists both.
C6_Witness ==
    /\ summary # NoSummary
    /\ Len(syncedRepos) = 2
    /\ syncedRepos[1].Identifier # syncedRepos[2].Identifier
    /\ Len(Failed(syncedRepos)) = 2
    /\ \E k \in 1..(Len(syncedRepos[1].Error) - 1) :
          syncedRepos[1].Error[k] = "CR" /\ syncedRepos[1].Error[k + 1] = "LF"
    /\ Len(summary[1].tableAndErrors) = 2
    /\ Len(summary[1].tableAndErrors[2].lines) = 2

\* A status code of the 2xx class.
Is2xx(status) == status \in 200..299

\* The operations of the attempt in progress, in the order performed.
Ops == [k \in 1..Len(steps) |-> steps[k].op]

\* C7: when SyncRepository returns from the create-pull-request call, it
\* returns a nil error exactly when the call returned no error and a 2xx
\* response.
C7_PullRequestSucceedsIff2xx ==
    (pc = "record" /\ Len(steps) > 0 /\ steps[Len(steps)].op = "pullRequest") =>
        (err = NoErr <=>
            (~steps[Len(steps)].callErr /\ Is2xx(steps[Len(steps)].status)))

\* The order of C8: the branch reconcile, the clone and the file transfer,
\* the commit and push of the transferred files, the pull request.
AttemptOrder ==
    <<"reconcile", "clone", "transfer", "commit and push", "pullRequest">>

\* C8: the operations of an attempt are an initial part of AttemptOrder: no
\* pull request is created before the transferred files are committed and
\* pushed.
C8_CommitAndPushBeforePullRequest ==
    /\ Len(Ops) <= Len(AttemptOrder)
    /\ Ops = SubSeq(AttemptOrder, 1, Len(Ops))

\* C9: an attempt that began with a sync-workflows branch in the working
\* directory or on the target's remote, and in which no operation failed on
\* the environment's account, gets through the branch reconcile.
C9_OldBranchIsCleared ==
    (pc = "record" /\ ~fault /\ (pre.local \/ pre.remote)) =>
        (Len(steps) >= 1 /\ steps[1].op = "reconcile")

\* The transfer for the target has succeeded: the attempt is at the pull
\* request and its last step is the transfer.
TransferSucceeded ==
    /\ pc = "createPullRequest"
    /\ Len(steps) >= 1
    /\ steps[Len(steps)].op = "transfer"

SyncedRepoFiles ==
    (RepoA :> Dir(SyncedCi :> "new" @@ Manual :> "m"))
    @@ (RepoB :> Dir(SyncedCi :> "new"))

InitSynced ==
    /\ pc = "main"
    /\ exit = "running"
    /\ config \in ConfigFiles
    /\ token \in BOOLEAN
    /\ versionTag = ""
    /\ targetRepos = <<>>
    /\ idx = 0
    /\ syncedRepos = <<>>
    /\ err = NoErr
    /\ steps = <<>>
    /\ fault = FALSE
    /\ pre = [local |-> FALSE, remote |-> FALSE]
    /\ localBranch \in BOOLEAN
    /\ headCommit \in Commits
    /\ origin = SourceRepo
    /\ remoteBranch \in SUBSET {RepoA, RepoB, SourceRepo}
    /\ cloneDir = NoClone
    /\ workFiles = NoDir
    /\ repoFiles = SyncedRepoFiles
    /\ sourceFiles = RunSourceFiles
    /\ pulls = <<>>
    /\ lastSynced = OldCommit
    /\ tagMove = "none"
    /\ summary = NoSummary

SpecSynced == InitSynced /\ [][Next]_vars

\* The attempt in progress has ended and nothing of the environment failed
\* in it: no command or request failed for a reason of its own, and the
\* pull request call, when made, was answered.
AttemptEndedWithoutFault ==
    /\ pc = "record"
    /\ ~fault
    /\ Len(steps) >= 1 /\ steps[Len(steps)].op = "pullRequest" =>
          steps[Len(steps)].status # NoResponse

\* C12: in a run over a synced fleet an attempt in which nothing of the
\* environment failed ends without error, with no pull request opened for
\* its target and with the clone's workflow directory as it was cloned; and
\* when every target has so succeeded and updateLastSynced has not failed
\* the tag points at the commit checked out.
C12_SyncedFleetNeedsNoChanges ==
    /\ AttemptEndedWithoutFault =>
          /\ err = NoErr
          /\ \A k \in 1..Len(pulls) : pulls[k].repo # ApiRepo(Target)
          /\ cloneDir = Target
          /\ workFiles = repoFiles[Target]
    /\ (AllTargetsSucceeded /\ tagMove \notin {"origin failed", "tag failed"}) =>
          lastSynced = headCommit

\* The run has gone through an empty target list and ended.
EmptyListDone == LoopDone /\ Len(targetRepos) = 0

\* C13 as stated: a run over an empty list ends with zero outcomes, the
\* heading 0/0, the tag moved to the commit checked out and success status.
C13_EmptyListMovesTag ==
    EmptyListDone =>
        /\ syncedRepos = <<>>
        /\ HeadingStates(0, 0)
        /\ tagMove = "ok"
        /\ lastSynced = headCommit
        /\ exit = "success"

\* C13 amended: a run over an empty list ends with zero outcomes and has
\* called updateLastSynced; when that succeeded the heading states 0/0, the
\* report says the tag is updated, the tag points at the commit checked out
\* and the status is success; when it failed the status is failure.
C13_EmptyListMovesTagUnlessUpdateFails ==
    EmptyListDone =>
        /\ syncedRepos = <<>>
        /\ tagMove # "none"
        /\ tagMove = "ok" =>
              /\ HeadingStates(0, 0)
              /\ summary[1].tag = "Updated"
              /\ summary[1].missingCount = 0
              /\ lastSynced = headCommit
              /\ exit = "success"
        /\ tagMove # "ok" => exit = "failure"

\* A run over an empty list has ended with the tag moved and success status.
C13_Witness ==
    /\ EmptyListDone
    /\ config.repos = <<>>
    /\ syncedRepos = <<>>
    /\ tagMove = "ok"
    /\ lastSynced = headCommit
    /\ HeadingStates(0, 0)
    /\ exit = "success"

\* A fatal condition of the run's inputs: repos.json is missing or malformed,
\* GH_AUTH_TOKEN is not set, or the run ended before the loop (the working
\* directory, the current repository or the version tag could not be had, or
\* the tag is empty).
FatalPreRun ==
    \/ config.state # "ok"
    \/ ~token
    \/ Exited /\ idx = 0

\* C14: under a fatal condition of the inputs no operation of any attempt is
\* performed, no outcome is recorded, no report is written, updateLastSynced
\* is not called and the tag stays, and the run ends with failure status.
C14_FatalPreRunStopsEverything ==
    FatalPreRun =>
        /\ pc \in {"main", "loop", "exited"}
        /\ steps = <<>>
        /\ syncedRepos = <<>>
        /\ pulls = <<>>
        /\ summary = NoSummary
        /\ tagMove = "none"
        /\ lastSynced = OldCommit
        /\ Exited => exit = "failure"

\* C15: when every target succeeded and updateLastSynced failed, the ended
\* run has written its job summary.
C15_ReportBeforeTagFailure ==
    (AllTargetsSucceeded /\ tagMove \in {"origin failed", "tag failed"}) =>
        summary # NoSummary

(***************************************************************************)
(* RepoOwnerName on its own: main up to the first attempt's call of it,    *)
(* over a list of one identifier, any string of up to MaxNameLen           *)
(* characters with slashes among them.                                     *)
(***************************************************************************)
NameChars == {"o", "a", "/"}

InitName ==
    /\ pc = "main"
    /\ exit = "running"
    /\ \E repo \in SeqUpTo(NameChars, MaxNameLen) :
          config = [state |-> "ok", repos |-> <<repo>>]
    /\ token \in BOOLEAN
    /\ versionTag = ""
    /\ targetRepos = <<>>
    /\ idx = 0
    /\ syncedRepos = <<>>
    /\ err = NoErr
    /\ steps = <<>>
    /\ fault = FALSE
    /\ pre = [local |-> FALSE, remote |-> FALSE]
    /\ localBranch = FALSE
    /\ headCommit = MainTip
    /\ origin = SourceRepo
    /\ remoteBranch = {}
    /\ cloneDir = NoClone
    /\ workFiles = NoDir
    /\ repoFiles = RunRepoFiles
    /\ sourceFiles = RunSourceFiles
    /\ pulls = <<>>
    /\ lastSynced = OldCommit
    /\ tagMove = "none"
    /\ summary = NoSummary

NextName ==
    \/ MainStart
    \/ BeginSync

SpecName == InitName /\ [][NextName]_vars

\* The positions of the slashes of a string.
Slashes(s) == {k \in 1..Len(s) : s[k] = "/"}

\* The string before and the string after the first slash of s.
SplitAtFirst(s) ==
    LET k == CHOOSE j \in Slashes(s) : \A m \in Slashes(s) : j <= m
    IN  <<SubSeq(s, 1, k - 1), SubSeq(s, k + 1, Len(s))>>

\* RepoOwnerName has returned for the target of the attempt in progress.
OwnerNameReturned == pc \in {"branchExists", "record"}

\* C16: when RepoOwnerName has returned for an identifier, the identifier
\* has a slash (without one the call fails), the pair returned has a
\* non-empty owner and a non-empty name, and for an identifier with a
\* non-empty text before and after its first slash the pair is those two
\* texts.
C16_RepoOwnerName ==
    OwnerNameReturned =>
        /\ Slashes(Target) # {}
        /\ RepoOwnerName(Target)[1] # <<>>
        /\ RepoOwnerName(Target)[2] # <<>>
        /\ LET parts == SplitAtFirst(Target)
           IN  (parts[1] # <<>> /\ parts[2] # <<>>) =>
                   RepoOwnerName(Target) = parts

(***************************************************************************)
(* The table rows on their own: main after the loop, over the outcome      *)
(* sequences of up to MaxTargets targets whose outcomes have an error or   *)
(* none and a pull request or none, in every combination.                  *)
(***************************************************************************)
\* A non-nil *PullRequest: its Title, HTMLURL and Number.
SomePullRequest ==
    <<[Title |-> "(sync): update workflows", HTMLURL |-> "url", Number |-> "n"]>>

RowOutcomes ==
    {SyncedRepository(id, e, p) :
        id \in {RepoA, RepoB},
        e \in {NoErr, Errorf("could not create pull request", <<"e">>)},
        p \in {NoPullRequest, SomePullRequest}}

InitRows ==
    /\ pc = "loop"
    /\ exit = "running"
    /\ syncedRepos \in SeqUpTo(RowOutcomes, MaxTargets)
    /\ targetRepos = Identifiers(syncedRepos)
    /\ config = [state |-> "ok", repos |-> targetRepos]
    /\ token = TRUE
    /\ versionTag = "v1"
    /\ idx = Len(targetRepos) + 1
    /\ err = NoErr
    /\ steps = <<>>
    /\ fault = FALSE
    /\ pre = [local |-> FALSE, remote |-> FALSE]
    /\ localBranch = FALSE
    /\ headCommit = MainTip
    /\ origin = SourceRepo
    /\ remoteBranch = {}
    /\ cloneDir = NoClone
    /\ workFiles = NoDir
    /\ repoFiles = RunRepoFiles
    /\ sourceFiles = RunSourceFiles
    /\ pulls = <<>>
    /\ lastSynced = OldCommit
    /\ tagMove = "none"
    /\ summary = NoSummary

NextRows == MainFinish

SpecRows == InitRows /\ [][NextRows]_vars

\* C17: in a written report the table has one row per outcome; the row of an
\* outcome with an error has the non-success glyph and the error list has
\* an entry naming its target; the pull request column is the pull request's
\* text and link when the outcome has a pull request, "Could not create."
\* exactly when it has an error and no pull request, and "No changes
\* needed." exactly when it has neither.
C17_TableRows ==
    summary # NoSummary =>
        LET blocks == summary[1].tableAndErrors
            rows == blocks[1].lines
        IN  /\ blocks[1].kind = "table"
            /\ Len(rows) = Len(syncedRepos)
            /\ \A k \in 1..Len(syncedRepos) :
                  LET repo == syncedRepos[k]
                      column == rows[k].pullRequest
                  IN  /\ rows[k].repo.link = repo.Identifier
                      /\ repo.Error # NoErr =>
                            /\ rows[k].success = "cross"
                            /\ Len(blocks) = 2
                            /\ blocks[2].kind = "errors"
                            /\ \E j \in 1..Len(blocks[2].lines) :
                                  blocks[2].lines[j].repo.link = repo.Identifier
                      /\ repo.Error = NoErr => rows[k].success = "check"
                      /\ repo.PullRequest # NoPullRequest =>
                            /\ column.text = "pull request"
                            /\ column.pullRequest = repo.PullRequest
                      /\ column.text = "Could not create." <=>
                            (repo.Error # NoErr /\ repo.PullRequest = NoPullRequest)
                      /\ column.text = "No changes needed." <=>
                            (repo.Error = NoErr /\ repo.PullRequest = NoPullRequest)

\* A written report over two outcomes: one with an error and no pull
\* request, shown as "Could not create.", and one with an error and a pull
\* request, shown with its pull request.
C17_Witness ==
    /\ summary # NoSummary
    /\ Len(syncedRepos) = 2
    /\ syncedRepos[1].Error # NoErr
    /\ syncedRepos[1].PullRequest = NoPullRequest
    /\ syncedRepos[2].Error # NoErr
    /\ syncedRepos[2].PullRequest = SomePullRequest
    /\ summary[1].tableAndErrors[1].lines[1].success = "cross"
    /\ summary[1].tableAndErrors[1].lines[1].pullRequest.text = "Could not create."
    /\ summary[1].tableAndErrors[1].lines[2].pullRequest.text = "pull request"
    /\ Len(summary[1].tableAndErrors[2].lines) = 2

\* C18: when the attempt has created and pushed sync-workflows, the branch
\* was made in a clone of the attempt's target and pushed to that target's
\* remote: the origin the push used is the target and ./TargetRepo, the only
\* working copy of a target there is, holds the target.
C18_BranchInTargetOnly ==
    (pc = "locallySync" /\ steps = <<Step("reconcile")>>) =>
        /\ origin = Target
        /\ cloneDir = Target
        /\ Target \in remoteBranch

\* C19: after a successful clone ./TargetRepo is a clone of the attempt's
\* target and its workflow directory holds what the target's remote holds,
\* nothing of a clone made before; and an attempt that ended at the clone
\* ended with an error.
C19_CloneDirHoldsOnlyTarget ==
    /\ pc = "transfer" =>
          /\ cloneDir = Target
          /\ workFiles = repoFiles[Target]
    /\ (pc = "record" /\ steps = <<Step("reconcile")>>) => err # NoErr

\* The second target, whose remote has no workflow directory, has been
\* cloned after an attempt that had cloned the first target and transferred
\* files into its workflow directory; nothing of it is left.
C19_Witness ==
    /\ pc = "transfer"
    /\ idx = 2
    /\ targetRepos = <<RepoA, RepoB>>
    /\ Len(syncedRepos) = 1
    /\ syncedRepos[1].Error # NoErr
    /\ syncedRepos[1].Error[1] = "could not create pull request"
    /\ cloneDir = RepoB
    /\ workFiles = NoDir

\* C20: for the outcomes of the run GetSyncedRepoCount returns (s, t) with
\* 0 <= s <= t and t the number of outcomes, AnySyncedRepoHasError is true
\* exactly when s < t, and a written report that says the tag stays was given
\* those counts and states a missing count t - s that is at least 1 and is
\* the number of entries of its error list.
C20_AggregatesAgree ==
    LET count == GetSyncedRepoCount(syncedRepos)
        s == count[1]
        t == count[2]
    IN  /\ 0 <= s
        /\ s <= t
        /\ t = Len(syncedRepos)
        /\ AnySyncedRepoHasError(syncedRepos) <=> s < t
        /\ (summary # NoSummary /\ summary[1].tag = "Stays") =>
              /\ summary[1].successCount = s
              /\ summary[1].totalCount = t
              /\ summary[1].missingCount = t - s
              /\ summary[1].missingCount >= 1
              /\ AnySyncedRepoHasError(syncedRepos)
              /\ Len(summary[1].tableAndErrors) = 2
              /\ summary[1].missingCount = Len(summary[1].tableAndErrors[2].lines)

\* The report of a run of two outcomes, the second one failed, says the tag
\* stays and states a missing count of 1 over an error list of one entry.
C20_Witness ==
    /\ summary # NoSummary
    /\ summary[1].tag = "Stays"
    /\ Len(syncedRepos) = 2
    /\ syncedRepos[1].Error = NoErr
    /\ syncedRepos[2].Error # NoErr
    /\ GetSyncedRepoCount(syncedRepos) = <<1, 2>>
    /\ summary[1].missingCount = 1
    /\ Len(summary[1].tableAndErrors[2].lines) = 1

=============================================================================
